---- MODULE Spec2Model ----
(***************************************************************************)
(* A model of three parts of the Hermes front end:                         *)
(*   - irgen: the lowering of function-like AST nodes to IR functions      *)
(*     (ESTreeIRGen-func.cpp: FunctionContext, genFunctionDeclaration,     *)
(*     genFunctionExpression, genArrowFunctionExpression, genES5Function,  *)
(*     initCaptureStateInES5Function, emitFunctionPrologue,                *)
(*     emitFunctionEpilogue);                                              *)
(*   - sem: the semantic validator's function contexts, labels and         *)
(*     break/continue resolution (SemanticValidator.h, SemValidate.cpp);   *)
(*   - vm: the GCCell constructor's finalizer-order check (GCCell.cpp).    *)
(* In a behaviour one part is at work and the other two are at rest.       *)
(***************************************************************************)
EXTENDS Integers, Sequences, FiniteSets, TLC

\* Size of the AST handed to the IR generator: function nodes, formals,
\* hoisted declarations and body statements all count one.
MaxNodes == 3

\* Source names, and the lists the AST's functions draw their formals, hoisted
\* variables and hoisted function declarations from.
Names == {"a", "b"}
FormalLists == {<<>>, <<"a">>, <<"b", "a">>}
DeclLists == {<<>>, <<"b">>, <<"a", "a">>}
ClosureLists == {<<>>, <<"a">>}

VARIABLES
  funcs,             \* the IR module: the functions created so far
  nameTable_,        \* ESTreeIRGen::nameTable_, a stack of scopes
  functionContext_,  \* ESTreeIRGen::functionContext_ (0 is nullptr)
  Builder,           \* the IRBuilder's insertion block
  stack,             \* the C++ call stack of gen* invocations
  fuel               \* AST nodes not lowered yet

irVars == <<funcs, nameTable_, functionContext_, Builder, stack, fuel>>

\* Size of the AST handed to the semantic validator when it is run once, and
\* when the validation is run again on the same AST.
MaxSemNodes == 4
MaxRerunNodes == 2

Labels == {"a", "b"}

VARIABLES
  semMode,             \* "off", "single" (one validation) or "rerun" (two)
  semPc,               \* "idle", "visiting" or "done"
  run,                 \* how many validations of the AST have been started
  visits,              \* the C++ call stack of the validator's visit() calls
  funcCtx_,            \* SemanticValidator::funcCtx_ (0 is nullptr)
  errorCount,          \* the error count of the SourceErrorManager
  initialErrorCount_,  \* SemanticValidator::initialErrorCount_
  result,              \* what validateAST / validateFunctionAST returned
  ast,                 \* the AST visited by the first validation, in pre-order
  rpos,                \* the next node of ast the second validation visits
  nodes,               \* how many nodes the first validation has visited
  visited,             \* the node visited last
  verdict,             \* how many errors visiting it reported
  recorded,            \* how many errors this validation has reported
  firstRecorded        \* how many the first validation reported

\* Heap cells the allocator hands out.
MaxCells == 3

VARIABLES
  build,          \* the build: whether NDEBUG and HERMESVM_GCCELL_ID are defined
  finalizables,   \* the allocator's list of finalizable objects, oldest first
  cells,          \* the constructed cells: vtable and debug allocation id
  objectID,       \* the last id GC::nextObjectID() gave out
  constructing,   \* the construction made last
  fatal           \* the program was ended by a failed check

gcVars == <<build, finalizables, cells, objectID, constructing, fatal>>

semVars ==
  <<semMode, semPc, run, visits, funcCtx_, errorCount, initialErrorCount_,
    result, ast, rpos, nodes, visited, verdict, recorded, firstRecorded>>

-----------------------------------------------------------------------------
\* IR values

Val(kind, f, i, n) == [kind |-> kind, f |-> f, i |-> i, n |-> n]
Null == Val("null", 0, 0, "")
LiteralUndefined == Val("undefined", 0, 0, "")
Variable(f, i, n) == Val("var", f, i, n)
GlobalObjectProperty(n) == Val("global", 0, 0, n)
Parameter(f, i, n) == Val("param", f, i, n)
BlockRef(f, b) == Val("block", f, b, "")
FunctionRef(f) == Val("function", f, 0, "")

Inst(op, a, b) == [op |-> op, a |-> a, b |-> b]

NoInsertion == [f |-> 0, b |-> 0]

NoLazySource ==
  [set |-> FALSE, bufferId |-> 0, nodeKind |-> "", functionRange |-> 0,
   scope |-> <<>>]

\* AST source ranges: node n spans 2n (the function node) and 2n+1 (its body).
FunctionRange(n) == 2 * n
BodyRange(n) == 2 * n + 1

Max(S) == CHOOSE x \in S : \A y \in S : y <= x

-----------------------------------------------------------------------------
\* IRBuilder

createFunction(fs, name, kind, range) ==
  Append(fs, [name |-> name, kind |-> kind, range |-> range,
              params |-> <<>>, vars |-> <<>>, blocks |-> <<>>, nblocks |-> 0,
              lazySource |-> NoLazySource, lazyClosureAlias |-> Null])

createParameter(fs, f, name) == [fs EXCEPT ![f].params = Append(@, name)]

createVariable(fs, f, name) == [fs EXCEPT ![f].vars = Append(@, name)]

LastVariable(fs, f) == Variable(f, Len(fs[f].vars), fs[f].vars[Len(fs[f].vars)])

createBasicBlock(fs, f) ==
  [fs EXCEPT ![f].blocks = Append(@, [id |-> fs[f].nblocks + 1, insts |-> <<>>]),
             ![f].nblocks = @ + 1]

BlockIdx(fs, f, id) ==
  CHOOSE i \in 1..Len(fs[f].blocks) : fs[f].blocks[i].id = id

\* Append an instruction at the insertion point.
Emit(fs, ins, inst) ==
  [fs EXCEPT ![ins.f].blocks[BlockIdx(fs, ins.f, ins.b)].insts = Append(@, inst)]

emitStore(fs, ins, value, ptr) ==
  Emit(fs, ins,
       Inst(IF ptr.kind = "var" THEN "StoreFrame" ELSE "StoreProperty", value, ptr))

-----------------------------------------------------------------------------
\* The name table: a stack of scopes, innermost last.

EmptyScope == [n \in {} |-> Null]

lookup(nt, name) ==
  LET hits == {i \in 1..Len(nt) : name \in DOMAIN nt[i]}
  IN  IF hits = {} THEN Null ELSE nt[Max(hits)][name]

insertIntoScope(nt, s, name, v) == [nt EXCEPT ![s] = (name :> v) @@ @]

insert(nt, name, v) == insertIntoScope(nt, Len(nt), name, v)

-----------------------------------------------------------------------------
\* The generator state the straight-line helpers thread through:
\* g = [funcs, nt, ins].

Gen(fs, nt, ins) == [funcs |-> fs, nt |-> nt, ins |-> ins]

declareVariableOrGlobalProperty(g, f, name) ==
  LET found == lookup(g.nt, name)
      isGlobal == g.funcs[f].kind = "Global"
      reuse == \/ found.kind = "var" /\ found.f = f
               \/ found.kind = "global" /\ isGlobal
  IN  IF reuse THEN [g |-> g, first |-> found, second |-> FALSE]
      ELSE IF isGlobal
      THEN [g |-> [g EXCEPT !.nt = insert(@, name, GlobalObjectProperty(name))],
            first |-> GlobalObjectProperty(name), second |-> TRUE]
      ELSE LET fs == createVariable(g.funcs, f, name)
           IN  [g |-> [g EXCEPT !.funcs = fs,
                                !.nt = insert(@, name, LastVariable(fs, f))],
                first |-> LastVariable(fs, f), second |-> TRUE]

\* A loop that initializes a variable at every occurrence.
RECURSIVE HoistDeclsBug(_, _, _)
HoistDeclsBug(g, f, decls) ==
  IF decls = <<>> THEN g
  ELSE LET res == declareVariableOrGlobalProperty(g, f, Head(decls))
           g2 == IF res.first.kind # "var"
                 THEN res.g
                 ELSE [res.g EXCEPT !.funcs =
                         Emit(@, res.g.ins,
                              Inst("StoreFrame", LiteralUndefined, res.first))]
       IN  HoistDeclsBug(g2, f, Tail(decls))

RECURSIVE HoistDecls(_, _, _)
HoistDecls(g, f, decls) ==
  IF decls = <<>> THEN g
  ELSE LET res == declareVariableOrGlobalProperty(g, f, Head(decls))
           g2 == IF res.first.kind # "var" \/ ~res.second
                 THEN res.g
                 ELSE [res.g EXCEPT !.funcs =
                         Emit(@, res.g.ins,
                              Inst("StoreFrame", LiteralUndefined, res.first))]
       IN  HoistDecls(g2, f, Tail(decls))

RECURSIVE HoistClosures(_, _, _)
HoistClosures(g, f, closures) ==
  IF closures = <<>> THEN g
  ELSE HoistClosures(declareVariableOrGlobalProperty(g, f, Head(closures)).g,
                     f, Tail(closures))

RECURSIVE BindParams(_, _, _)
BindParams(g, f, params) ==
  IF params = <<>> THEN g
  ELSE LET name == Head(params)
           fs1 == createParameter(g.funcs, f, name)
           P == Parameter(f, Len(fs1[f].params), name)
           fs2 == createVariable(fs1, f, name)
           ParamStorage == LastVariable(fs2, f)
           nt2 == insert(g.nt, name, ParamStorage)
           fs3 == emitStore(fs2, g.ins, P, ParamStorage)
       IN  BindParams(Gen(fs3, nt2, g.ins), f, Tail(params))

-----------------------------------------------------------------------------
\* AST nodes and semantic records. A function-like node carries its formals,
\* and, through getSemInfo(), its hoisted declarations and capture flags.

NoNode ==
  [kind |-> "", name |-> "", formals |-> <<>>, decls |-> <<>>,
   closures |-> <<>>, lazy |-> FALSE, bufferId |-> 0,
   containsArrowFunctions |-> FALSE,
   containsArrowFunctionsUsingArguments |-> FALSE]

CaptureFlags == {<<FALSE, FALSE>>, <<TRUE, FALSE>>, <<TRUE, TRUE>>}

\* The nodes under a function-like node that are paid for when it is chosen:
\* its formals, hoisted declarations, the identifier of a named function
\* expression, and the arrow that made the validator set containsArrowFunctions.
NodeCost(n) ==
  Len(n.formals) + Len(n.decls) + Len(n.closures)
    + (IF n.kind = "FunctionExpression" /\ n.name # "" THEN 1 ELSE 0)
    + (IF n.containsArrowFunctions THEN 1 ELSE 0)

\* The eager ordinary functions, the lazy ones (a lazy body has not been
\* validated in depth: no hoisting lists yet) and the arrows.
EagerNodes(kind, names) ==
  {[kind |-> kind, name |-> nm, formals |-> fl, decls |-> dl, closures |-> cl,
    lazy |-> FALSE, bufferId |-> 1,
    containsArrowFunctions |-> cf[1],
    containsArrowFunctionsUsingArguments |-> cf[2]] :
     nm \in names, fl \in FormalLists, dl \in DeclLists, cl \in ClosureLists,
     cf \in CaptureFlags}

LazyNodes(kind, names) ==
  {[NoNode EXCEPT !.kind = kind, !.name = nm, !.formals = fl, !.lazy = TRUE,
                  !.bufferId = 1] : nm \in names, fl \in FormalLists}

ArrowNodes ==
  {[NoNode EXCEPT !.kind = "ArrowFunctionExpression", !.formals = fl,
                  !.decls = dl, !.closures = cl, !.bufferId = 1] :
     fl \in FormalLists, dl \in DeclLists, cl \in ClosureLists}

ProgramNodes ==
  {[NoNode EXCEPT !.kind = "Program", !.decls = dl, !.closures = cl,
                  !.bufferId = 1] : dl \in DeclLists, cl \in ClosureLists}

ES5Nodes(kind, names) == EagerNodes(kind, names) \cup LazyNodes(kind, names)

-----------------------------------------------------------------------------
\* irgen::FunctionContext

NoContext ==
  [self |-> 0, semInfo_ |-> NoNode, oldContext_ |-> 0,
   builderSaveState_ |-> NoInsertion, function |-> 0, scope |-> 0,
   capturedThis |-> Null, capturedNewTarget |-> Null,
   capturedArguments |-> Null, entryTerminator |-> Null,
   anonymousLabelCounter |-> 0]

\* The constructor: the object it builds, and the value it leaves in
\* irGen->functionContext_.
FunctionContext(cur, ins, nt, function, semInfo) ==
  [NoContext EXCEPT !.self = function, !.semInfo_ = semInfo,
                    !.oldContext_ = cur, !.builderSaveState_ = ins,
                    !.function = function, !.scope = Len(nt) + 1,
                    !.capturedNewTarget = LiteralUndefined]

ContextAfterCtor(ctx) == ctx.self

\* A destructor that clears the current context instead of restoring it.
ContextAfterDtorBug(ctx) == 0

\* The destructor: the value it leaves in irGen_->functionContext_.
ContextAfterDtor(ctx) == ctx.oldContext_

genAnonymousLabelName(ctx, hint) ==
  "?anon_" \o ToString(ctx.anonymousLabelCounter) \o "_" \o hint

-----------------------------------------------------------------------------
\* Call frames: one per running genFunctionDeclaration, genFunctionExpression
\* or genArrowFunctionExpression (and one for the program), with the locals
\* of the genES5Function it calls.

Frame(call, pc, node) ==
  [call |-> call, pc |-> pc, node |-> node, ctx |-> NoContext,
   todo |-> <<>>, owed |-> node.containsArrowFunctions, funcStorage |-> Null, tempClosureVar |-> Null,
   newScope |-> 0, newFunc |-> 0, outerLookup |-> Null]

Top == Len(stack)

CurIdx == CHOOSE i \in 1..Len(stack) : stack[i].ctx.self = functionContext_

curFunction == stack[CurIdx].ctx

CtxOf(c) == stack[CHOOSE i \in 1..Len(stack) : stack[i].ctx.self = c].ctx

\* The nearest enclosing function that is not an arrow.
RECURSIVE NearestOrdinary(_)
NearestOrdinary(c) ==
  IF funcs[c].kind # "ES6Arrow" THEN c
  ELSE NearestOrdinary(CtxOf(c).oldContext_)

\* The chain of lowering contexts from c outwards.
RECURSIVE ContextChain(_)
ContextChain(c) ==
  IF c = 0 THEN <<>> ELSE <<c>> \o ContextChain(CtxOf(c).oldContext_)

saveCurrentScope == ContextChain(functionContext_)

-----------------------------------------------------------------------------
\* A prologue that binds the parameters before it hoists the declarations.
PrologueHeadBug(g, f, semInfo, params) ==
  LET fs1 == createBasicBlock(g.funcs, f)
      entry == [f |-> f, b |-> fs1[f].nblocks]
      g1 == [Gen(fs1, g.nt, entry) EXCEPT !.funcs = createParameter(@, f, "this")]
      g2 == BindParams(g1, f, params)
      g3 == HoistDecls(g2, f, semInfo.decls)
  IN  HoistClosures(g3, f, semInfo.closures)

\* emitFunctionPrologue up to the loop over the hoisted function declarations.
PrologueHead(g, f, semInfo, params) ==
  LET fs1 == createBasicBlock(g.funcs, f)
      entry == [f |-> f, b |-> fs1[f].nblocks]
      g1 == HoistDecls(Gen(fs1, g.nt, entry), f, semInfo.decls)
      g2 == HoistClosures(g1, f, semInfo.closures)
      g3 == [g2 EXCEPT !.funcs = createParameter(@, f, "this")]
  IN  BindParams(g3, f, params)

\* A prologue end that does not record the entry branch.
PrologueTailBug(fs, ins, f) ==
  LET fs1 == createBasicBlock(fs, f)
      nextBlock == fs1[f].nblocks
  IN  [funcs |-> Emit(fs1, ins, Inst("Branch", BlockRef(f, nextBlock), Null)),
       entryTerminator |-> Null,
       ins |-> [f |-> f, b |-> nextBlock]]

\* emitFunctionPrologue after that loop: the body block and the entry branch.
PrologueTail(fs, ins, f) ==
  LET fs1 == createBasicBlock(fs, f)
      nextBlock == fs1[f].nblocks
  IN  [funcs |-> Emit(fs1, ins, Inst("Branch", BlockRef(f, nextBlock), Null)),
       entryTerminator |-> Val("inst", ins.f, ins.b, "Branch"),
       ins |-> [f |-> f, b |-> nextBlock]]

\* A capture initialization that does nothing.
InitCaptureStateBug(fs, ins, ctx) == [funcs |-> fs, ctx |-> ctx]

\* initCaptureStateInES5Function: the new IR and the updated context.
InitCaptureState(fs, ins, ctx) ==
  IF ~ctx.semInfo_.containsArrowFunctions
  THEN [funcs |-> fs, ctx |-> ctx]
  ELSE
    LET f == ctx.function
        fs1 == createVariable(fs, f, genAnonymousLabelName(ctx, "this"))
        c1 == [ctx EXCEPT !.anonymousLabelCounter = @ + 1,
                          !.capturedThis = LastVariable(fs1, f)]
        fs2 == emitStore(fs1, ins, Parameter(ins.f, 1, "this"), c1.capturedThis)
        fs3 == createVariable(fs2, f, genAnonymousLabelName(c1, "new.target"))
        c2 == [c1 EXCEPT !.anonymousLabelCounter = @ + 1,
                         !.capturedNewTarget = LastVariable(fs3, f)]
        fs4 == Emit(fs3, ins, Inst("GetNewTarget", Null, Null))
        fs5 == emitStore(fs4, ins, Val("inst", ins.f, 0, "GetNewTarget"),
                         c2.capturedNewTarget)
    IN  IF ~ctx.semInfo_.containsArrowFunctionsUsingArguments
        THEN [funcs |-> fs5, ctx |-> c2]
        ELSE
          LET fs6 == createVariable(fs5, f, genAnonymousLabelName(c2, "arguments"))
              c3 == [c2 EXCEPT !.anonymousLabelCounter = @ + 1,
                               !.capturedArguments = LastVariable(fs6, f)]
              fs7 == Emit(fs6, ins, Inst("CreateArguments", Null, Null))
          IN  [funcs |-> emitStore(fs7, ins,
                                   Val("inst", ins.f, 0, "CreateArguments"),
                                   c3.capturedArguments),
               ctx |-> c3]

\* A propagation that leaves out the arguments object.
PropagateCapturedBug(ctx, prev) ==
  [ctx EXCEPT !.capturedThis = prev.capturedThis,
              !.capturedNewTarget = prev.capturedNewTarget]

\* genArrowFunctionExpression, "Propagate captured ... from parents".
PropagateCaptured(ctx, prev) ==
  [ctx EXCEPT !.capturedThis = prev.capturedThis,
              !.capturedNewTarget = prev.capturedNewTarget,
              !.capturedArguments = prev.capturedArguments]

\* A use list that is always empty.
UsersBug(fs, f, b) == {}

\* The instructions that use block b of function f, as <<block index, position>>.
Users(fs, f, b) ==
  UNION {{<<i, p>> : p \in {q \in 1..Len(fs[f].blocks[i].insts) :
                              /\ fs[f].blocks[i].insts[q].op = "Branch"
                              /\ fs[f].blocks[i].insts[q].a = BlockRef(f, b)}} :
         i \in 1..Len(fs[f].blocks)}

\* "Move all instructions from nextBlock into Entry": each one is moved
\* before the entry block's terminator, which stays last.
RECURSIVE MoveAllBefore(_, _)
MoveAllBefore(entry, next) ==
  IF next = <<>> THEN entry
  ELSE MoveAllBefore(SubSeq(entry, 1, Len(entry) - 1) \o <<Head(next)>>
                       \o <<entry[Len(entry)]>>,
                     Tail(next))

RemoveAt(seq, i) == SubSeq(seq, 1, i - 1) \o SubSeq(seq, i + 1, Len(seq))

\* emitFunctionEpilogue(returnValue) with a non-null return value.
Epilogue(fs, ins, ctx) ==
  LET f == ctx.function
      fs1 == Emit(fs, ins, Inst("Return", LiteralUndefined, Null))
      term == ctx.entryTerminator
      eIdx == BlockIdx(fs1, f, term.i)
      tPos == Len(fs1[f].blocks[eIdx].insts)
      nextBlock == fs1[f].blocks[eIdx].insts[tPos].a.i
      nIdx == BlockIdx(fs1, f, nextBlock)
      users == Users(fs1, f, nextBlock)
  IN  IF Cardinality(users) = 1 /\ <<eIdx, tPos>> \in users
      THEN LET moved == MoveAllBefore(fs1[f].blocks[eIdx].insts,
                                      fs1[f].blocks[nIdx].insts)
               erased == SubSeq(moved, 1, Len(moved) - 1)
               blocks1 == [fs1[f].blocks EXCEPT ![eIdx].insts = erased]
           IN  [funcs |-> [fs1 EXCEPT ![f].blocks = RemoveAt(blocks1, nIdx)],
                ctx |-> [ctx EXCEPT !.entryTerminator = Null]]
      ELSE [funcs |-> fs1, ctx |-> ctx]

\* The lazy path of genES5Function: the stub and its resumption descriptor.
RECURSIVE StubParameters(_, _, _)
StubParameters(fs, f, params) ==
  IF params = <<>> THEN fs
  ELSE StubParameters(createParameter(fs, f, Head(params)), f, Tail(params))

\* A stub without the implicit "this" parameter.
LazyStubBug(fs, node, alias, scope) ==
  LET n == Len(fs) + 1
      fs1 == createFunction(fs, node.name, "ES5Function", BodyRange(n))
      fs2 == [fs1 EXCEPT ![n].lazyClosureAlias = alias,
                         ![n].lazySource =
                           [set |-> TRUE, scope |-> scope,
                            bufferId |-> node.bufferId, nodeKind |-> node.kind,
                            functionRange |-> FunctionRange(n)]]
  IN  StubParameters(fs2, n, node.formals)

LazyStub(fs, node, alias, scope) ==
  LET n == Len(fs) + 1
      fs1 == createFunction(fs, node.name, "ES5Function", BodyRange(n))
      fs2 == [fs1 EXCEPT ![n].lazyClosureAlias = alias,
                         ![n].lazySource =
                           [set |-> TRUE, scope |-> scope,
                            bufferId |-> node.bufferId, nodeKind |-> node.kind,
                            functionRange |-> FunctionRange(n)]]
  IN  StubParameters(createParameter(fs2, n, "this"), n, node.formals)

-----------------------------------------------------------------------------
\* The IR generator's steps. Each acts at the top of the call stack.

\* The generator is at work: some gen* invocation is on the call stack.
IrRunning == stack # <<>>

SetTop(fr) == [stack EXCEPT ![Top] = fr]

SetCur(ctx) == [stack EXCEPT ![CurIdx].ctx = ctx]

\* Arrows are lowered where the validator flagged the enclosing ordinary
\* function as containing arrows (the program itself needs no flag).
ArrowAllowed ==
  LET o == NearestOrdinary(functionContext_)
  IN  funcs[o].kind = "Global" \/ CtxOf(o).semInfo_.containsArrowFunctions

\* The frame of the nearest enclosing ordinary function, and whether the arrow
\* its containsArrowFunctions flag stands for is still to be lowered.
OrdinaryIdx ==
  CHOOSE i \in 1..Len(stack) :
    stack[i].ctx.self = NearestOrdinary(functionContext_)

ArrowCost == IF stack[OrdinaryIdx].owed THEN 0 ELSE 1

\* The state after the program's lowering context has been constructed.
IrInit ==
  \E node \in ProgramNodes :
    /\ NodeCost(node) <= MaxNodes
    /\ fuel = MaxNodes - NodeCost(node)
    /\ funcs = createFunction(<<>>, "global", "Global", FunctionRange(1))
    /\ nameTable_ = <<EmptyScope>>
    /\ functionContext_ = 1
    /\ Builder = NoInsertion
    /\ stack = <<[Frame("top", "prologue", node) EXCEPT
                    !.ctx = FunctionContext(0, NoInsertion, <<>>, 1, node)]>>

emitFunctionPrologue ==
  /\ IrRunning
  /\ UNCHANGED semVars
  /\ UNCHANGED gcVars
  /\ stack[Top].pc = "prologue"
  /\ LET ctx == curFunction
         g == PrologueHead(Gen(funcs, nameTable_, Builder), ctx.function,
                           ctx.semInfo_, stack[Top].node.formals)
     IN  /\ funcs' = g.funcs
         /\ nameTable_' = g.nt
         /\ Builder' = g.ins
         /\ stack' = SetTop([stack[Top] EXCEPT !.pc = "closures",
                                               !.todo = ctx.semInfo_.closures])
  /\ UNCHANGED <<functionContext_, fuel>>

\* genFunctionDeclaration up to its call of genES5Function.
genFunctionDeclaration ==
  /\ IrRunning
  /\ UNCHANGED semVars
  /\ UNCHANGED gcVars
  /\ stack[Top].pc = "closures"
  /\ stack[Top].todo # <<>>
  /\ \E node \in ES5Nodes("FunctionDeclaration", {Head(stack[Top].todo)}) :
       /\ NodeCost(node) <= fuel
       /\ fuel' = fuel - NodeCost(node)
       /\ stack' = Append([stack EXCEPT ![Top].todo = Tail(@)],
                          [Frame("decl", "call", node) EXCEPT
                             !.funcStorage = lookup(nameTable_, node.name)])
  /\ UNCHANGED <<funcs, nameTable_, functionContext_, Builder>>

\* genFunctionExpression up to its call of genES5Function.
genFunctionExpression ==
  /\ IrRunning
  /\ UNCHANGED semVars
  /\ UNCHANGED gcVars
  /\ stack[Top].pc = "body"
  /\ \E node \in ES5Nodes("FunctionExpression", {"", "a"}) :
       /\ NodeCost(node) + 1 <= fuel
       /\ fuel' = fuel - NodeCost(node) - 1
       /\ LET nt1 == Append(nameTable_, EmptyScope)
              ctx == curFunction
          IN  IF node.name = ""
              THEN /\ nameTable_' = nt1
                   /\ funcs' = funcs
                   /\ stack' = Append(stack,
                        [Frame("expr", "call", node) EXCEPT
                           !.newScope = Len(nt1),
                           !.outerLookup = lookup(nameTable_, node.name)])
              ELSE LET closureName == genAnonymousLabelName(ctx, "closure")
                       fs1 == createVariable(funcs, ctx.function, closureName)
                       tempClosureVar == LastVariable(fs1, ctx.function)
                       nt2 == insertIntoScope(nt1, ctx.scope, closureName,
                                              tempClosureVar)
                   IN  /\ funcs' = fs1
                       /\ nameTable_' = insert(nt2, node.name, tempClosureVar)
                       /\ stack' = Append(
                            SetCur([ctx EXCEPT !.anonymousLabelCounter = @ + 1]),
                            [Frame("expr", "call", node) EXCEPT
                               !.newScope = Len(nt1),
                               !.outerLookup = lookup(nameTable_, node.name),
                               !.tempClosureVar = tempClosureVar])
  /\ UNCHANGED <<functionContext_, Builder>>

\* genES5Function on a lazy function body.
genES5FunctionLazy ==
  /\ IrRunning
  /\ UNCHANGED semVars
  /\ UNCHANGED gcVars
  /\ stack[Top].pc = "call"
  /\ stack[Top].node.lazy
  /\ funcs' = LazyStub(funcs, stack[Top].node, stack[Top].tempClosureVar,
                       saveCurrentScope)
  /\ stack' = SetTop([stack[Top] EXCEPT !.pc = "ret", !.newFunc = Len(funcs) + 1])
  /\ UNCHANGED <<nameTable_, functionContext_, Builder, fuel>>

\* genES5Function on an eager body, up to its call of emitFunctionPrologue.
genES5FunctionEnter ==
  /\ IrRunning
  /\ UNCHANGED semVars
  /\ UNCHANGED gcVars
  /\ stack[Top].pc = "call"
  /\ ~stack[Top].node.lazy
  /\ LET node == stack[Top].node
         n == Len(funcs) + 1
         fs1 == createFunction(funcs, node.name, "ES5Function", BodyRange(n))
         ctx == FunctionContext(functionContext_, Builder, nameTable_, n, node)
     IN  /\ funcs' = [fs1 EXCEPT ![n].lazyClosureAlias = stack[Top].tempClosureVar]
         /\ functionContext_' = ContextAfterCtor(ctx)
         /\ nameTable_' = Append(nameTable_, EmptyScope)
         /\ stack' = SetTop([stack[Top] EXCEPT !.pc = "prologue", !.ctx = ctx])
  /\ UNCHANGED <<Builder, fuel>>

\* genArrowFunctionExpression up to its call of emitFunctionPrologue.
genArrowFunctionExpression ==
  /\ IrRunning
  /\ UNCHANGED semVars
  /\ UNCHANGED gcVars
  /\ stack[Top].pc = "body"
  /\ ArrowAllowed
  /\ \E node \in ArrowNodes :
       /\ NodeCost(node) + ArrowCost <= fuel
       /\ fuel' = fuel - NodeCost(node) - ArrowCost
       /\ LET n == Len(funcs) + 1
              ctx == FunctionContext(functionContext_, Builder, nameTable_, n, node)
          IN  /\ funcs' = createFunction(funcs, "", "ES6Arrow", FunctionRange(n))
              /\ functionContext_' = ContextAfterCtor(ctx)
              /\ nameTable_' = Append(nameTable_, EmptyScope)
              /\ stack' = Append([stack EXCEPT ![OrdinaryIdx].owed = FALSE],
                                 [Frame("arrow", "prologue", node) EXCEPT
                                    !.ctx = ctx])
  /\ UNCHANGED Builder

\* The end of emitFunctionPrologue, after the hoisted functions are lowered.
emitFunctionPrologueEnd ==
  /\ IrRunning
  /\ UNCHANGED semVars
  /\ UNCHANGED gcVars
  /\ stack[Top].pc = "closures"
  /\ stack[Top].todo = <<>>
  /\ LET ctx == curFunction
         r == PrologueTail(funcs, Builder, ctx.function)
     IN  /\ funcs' = r.funcs
         /\ Builder' = r.ins
         /\ stack' = [SetCur([ctx EXCEPT !.entryTerminator = r.entryTerminator])
                        EXCEPT ![Top].pc =
                          CASE stack[Top].call = "top" -> "body"
                            [] stack[Top].call = "arrow" -> "propagate"
                            [] OTHER -> "capture"]
  /\ UNCHANGED <<nameTable_, functionContext_, fuel>>

initCaptureStateInES5Function ==
  /\ IrRunning
  /\ UNCHANGED semVars
  /\ UNCHANGED gcVars
  /\ stack[Top].pc = "capture"
  /\ LET r == InitCaptureState(funcs, Builder, curFunction)
     IN  /\ funcs' = r.funcs
         /\ stack' = [SetCur(r.ctx) EXCEPT ![Top].pc = "body"]
  /\ UNCHANGED <<nameTable_, functionContext_, Builder, fuel>>

propagateCaptured ==
  /\ IrRunning
  /\ UNCHANGED semVars
  /\ UNCHANGED gcVars
  /\ stack[Top].pc = "propagate"
  /\ LET ctx == curFunction
         prev == CtxOf(ctx.oldContext_)
     IN  stack' = [SetCur(PropagateCaptured(ctx, prev)) EXCEPT ![Top].pc = "body"]
  /\ UNCHANGED <<funcs, nameTable_, functionContext_, Builder, fuel>>

\* genStatement on a statement that lowers to straight-line code.
genStatement ==
  /\ IrRunning
  /\ UNCHANGED semVars
  /\ UNCHANGED gcVars
  /\ stack[Top].pc = "body"
  /\ fuel >= 1
  /\ fuel' = fuel - 1
  /\ funcs' = Emit(funcs, Builder, Inst("Stmt", Null, Null))
  /\ UNCHANGED <<nameTable_, functionContext_, Builder, stack>>

\* genStatement on a statement whose lowering branches back to the block the
\* body started in, and goes on in a fresh block.
genStatementBranch ==
  /\ IrRunning
  /\ UNCHANGED semVars
  /\ UNCHANGED gcVars
  /\ stack[Top].pc = "body"
  /\ fuel >= 1
  /\ fuel' = fuel - 1
  /\ LET f == curFunction.function
         term == curFunction.entryTerminator
         entry == funcs[f].blocks[BlockIdx(funcs, f, term.i)].insts
         target == entry[Len(entry)].a
         fs1 == Emit(funcs, Builder, Inst("Branch", target, Null))
         fs2 == createBasicBlock(fs1, f)
     IN  /\ funcs' = fs2
         /\ Builder' = [f |-> f, b |-> fs2[f].nblocks]
  /\ UNCHANGED <<nameTable_, functionContext_, stack>>

emitFunctionEpilogue ==
  /\ IrRunning
  /\ UNCHANGED semVars
  /\ UNCHANGED gcVars
  /\ stack[Top].pc = "body"
  /\ stack[Top].call # "top"
  /\ ~stack[Top].owed
  /\ LET r == Epilogue(funcs, Builder, curFunction)
     IN  /\ funcs' = r.funcs
         /\ stack' = [SetCur(r.ctx) EXCEPT ![Top].pc = "exit"]
  /\ UNCHANGED <<nameTable_, functionContext_, Builder, fuel>>

\* The return of genES5Function: "return curFunction()->function", then the
\* destruction of its FunctionContext.
genES5FunctionReturn ==
  /\ IrRunning
  /\ UNCHANGED semVars
  /\ UNCHANGED gcVars
  /\ stack[Top].pc = "exit"
  /\ stack[Top].call \in {"decl", "expr"}
  /\ LET ctx == stack[Top].ctx
     IN  /\ functionContext_' = ContextAfterDtor(ctx)
         /\ nameTable_' = SubSeq(nameTable_, 1, ctx.scope - 1)
         /\ Builder' = ctx.builderSaveState_
         /\ stack' = SetTop([stack[Top] EXCEPT !.pc = "ret", !.ctx = NoContext,
                                               !.newFunc = curFunction.function])
  /\ UNCHANGED <<funcs, fuel>>

\* genFunctionDeclaration after genES5Function has returned.
genFunctionDeclarationEnd ==
  /\ IrRunning
  /\ UNCHANGED semVars
  /\ UNCHANGED gcVars
  /\ stack[Top].pc = "ret"
  /\ stack[Top].call = "decl"
  /\ LET newFunc == stack[Top].newFunc
         fs1 == Emit(funcs, Builder, Inst("CreateFunction", FunctionRef(newFunc), Null))
     IN  funcs' = emitStore(fs1, Builder, Val("closure", newFunc, 0, ""),
                            stack[Top].funcStorage)
  /\ stack' = SubSeq(stack, 1, Top - 1)
  /\ UNCHANGED <<nameTable_, functionContext_, Builder, fuel>>

\* A return that leaves the scope of the function's name open.
genFunctionExpressionEndBug ==
  /\ IrRunning
  /\ UNCHANGED semVars
  /\ UNCHANGED gcVars
  /\ stack[Top].pc = "ret"
  /\ stack[Top].call = "expr"
  /\ LET newFunc == stack[Top].newFunc
         fs1 == Emit(funcs, Builder, Inst("CreateFunction", FunctionRef(newFunc), Null))
     IN  funcs' = IF stack[Top].tempClosureVar # Null
                  THEN emitStore(fs1, Builder, Val("closure", newFunc, 0, ""),
                                 stack[Top].tempClosureVar)
                  ELSE fs1
  /\ stack' = SubSeq(stack, 1, Top - 1)
  /\ UNCHANGED <<nameTable_, functionContext_, Builder, fuel>>

\* genFunctionExpression after genES5Function has returned.
genFunctionExpressionEnd ==
  /\ IrRunning
  /\ UNCHANGED semVars
  /\ UNCHANGED gcVars
  /\ stack[Top].pc = "ret"
  /\ stack[Top].call = "expr"
  /\ LET newFunc == stack[Top].newFunc
         fs1 == Emit(funcs, Builder, Inst("CreateFunction", FunctionRef(newFunc), Null))
     IN  funcs' = IF stack[Top].tempClosureVar # Null
                  THEN emitStore(fs1, Builder, Val("closure", newFunc, 0, ""),
                                 stack[Top].tempClosureVar)
                  ELSE fs1
  /\ nameTable_' = SubSeq(nameTable_, 1, stack[Top].newScope - 1)
  /\ stack' = SubSeq(stack, 1, Top - 1)
  /\ UNCHANGED <<functionContext_, Builder, fuel>>

\* genArrowFunctionExpression after the epilogue: the context is destroyed and
\* the closure is created in the restored builder state.
genArrowFunctionExpressionEnd ==
  /\ IrRunning
  /\ UNCHANGED semVars
  /\ UNCHANGED gcVars
  /\ stack[Top].pc = "exit"
  /\ stack[Top].call = "arrow"
  /\ LET ctx == stack[Top].ctx
     IN  /\ functionContext_' = ContextAfterDtor(ctx)
         /\ nameTable_' = SubSeq(nameTable_, 1, ctx.scope - 1)
         /\ Builder' = ctx.builderSaveState_
         /\ funcs' = Emit(funcs, ctx.builderSaveState_,
                          Inst("CreateFunction", FunctionRef(ctx.function), Null))
  /\ stack' = SubSeq(stack, 1, Top - 1)
  /\ UNCHANGED fuel

-----------------------------------------------------------------------------
\* The semantic validator. AST nodes are visited in pre-order; a node that has
\* children is left by a "close".

Tok(t, label) == [t |-> t, label |-> label]

NoTok == Tok("", "")

\* A loop may carry a label (L: for(;;) ...); a "label" node is a labeled
\* statement whose body is a block.
OpenToks ==
  {Tok(t, "") : t \in {"function", "loop", "switch"}}
    \cup {Tok(t, l) : t \in {"label", "loop"}, l \in Labels}

LeafToks ==
  {Tok(t, l) : t \in {"break", "continue"}, l \in Labels \cup {""}}

\* sem::FunctionContext
NoSemContext ==
  [self |-> 0, oldContextValue_ |-> 0, activeLoop |-> 0,
   activeSwitchOrLoop |-> 0, labelMap |-> [l \in {} |-> 0]]

\* The constructor: the object it builds in call frame self.
SemFunctionContext(cur, self) ==
  [NoSemContext EXCEPT !.self = self, !.oldContextValue_ = cur]

\* The destructor: the value it leaves in validator_->funcCtx_.
FuncCtxAfterDtor(ctx) == ctx.oldContextValue_

isGlobalScope(ctx) == ctx.oldContextValue_ = 0

\* A visit() call frame: the function context it holds (visitFunction, the
\* program), the values its SaveAndRestore objects hold (loops, switches) and
\* whether it inserted its label (labeled statements).
Visit(tok) ==
  [kind |-> tok.t, label |-> tok.label, ctx |-> NoSemContext,
   savedLoop |-> 0, savedSwitchOrLoop |-> 0, inserted |-> FALSE]

SemTop == Len(visits)

semCurFunction == visits[funcCtx_].ctx

SetSemCur(vs, ctx) == [vs EXCEPT ![funcCtx_].ctx = ctx]

\* FunctionContext::Label: the declaration and the statement it targets, a
\* loop or the labeled statement itself.
Label(declarationNode, targetIsLoop) ==
  [declarationNode |-> declarationNode, targetIsLoop |-> targetIsLoop]

\* A result that counts the errors the sink held at entry.
doItBug(count, initial) == count = 0

\* SemanticValidator::doIt / doFunction: "we know whether we generated any
\* errors" from the error count saved at construction.
doIt(count, initial) == count = initial

\* The traversal visits every node, whatever it has reported.
TraversalOver(tree, p, reported) == p > Len(tree)

SemBudget == IF semMode = "rerun" THEN MaxRerunNodes ELSE MaxSemNodes

\* The nodes that can come next: any, while the first validation builds the
\* AST; the recorded one, when the AST is validated again.
NextToks ==
  IF run = 1
  THEN (IF nodes < SemBudget THEN OpenToks \cup LeafToks ELSE {})
         \cup (IF SemTop > 1 THEN {Tok("close", "")} ELSE {})
  ELSE IF rpos <= Len(ast) THEN {ast[rpos]} ELSE {}

\* Bookkeeping of a visit: the AST is recorded when it will be validated again.
Advance(tok, errs) ==
  /\ visited' = tok
  /\ verdict' = errs
  /\ errorCount' = errorCount + errs
  /\ recorded' = recorded + errs
  /\ ast' = IF run = 1 /\ semMode = "rerun" THEN Append(ast, tok) ELSE ast
  /\ rpos' = IF run = 2 THEN rpos + 1 ELSE rpos
  /\ nodes' = IF run = 1 /\ tok.t # "close" THEN nodes + 1 ELSE nodes
  /\ UNCHANGED <<semMode, semPc, run, initialErrorCount_, result, firstRecorded>>

SemInit ==
  /\ semMode \in {"single", "rerun"}
  /\ semPc = "idle"
  /\ run = 0
  /\ visits = <<>>
  /\ funcCtx_ = 0
  /\ errorCount \in {0, 1}
  /\ initialErrorCount_ = 0
  /\ result = TRUE
  /\ ast = <<>>
  /\ rpos = 1
  /\ nodes = 0
  /\ visited = NoTok
  /\ verdict = 0
  /\ recorded = 0
  /\ firstRecorded = 0

\* validateAST / validateFunctionAST: a validator is constructed and visits
\* the root, the program or a function, which opens the first function context.
validateAST ==
  /\ UNCHANGED irVars
  /\ UNCHANGED gcVars
  /\ semMode # "off"
  /\ \/ semPc = "idle"
     \/ semPc = "done" /\ semMode = "rerun" /\ run = 1
  /\ \E root \in {"program", "function"} :
       /\ run = 1 => root = ast[1].t
       /\ visits' = <<[Visit(Tok(root, "")) EXCEPT !.ctx = SemFunctionContext(0, 1)]>>
       /\ ast' = IF run = 0 /\ semMode = "rerun" THEN <<Tok(root, "")>> ELSE ast
  /\ funcCtx_' = 1
  /\ initialErrorCount_' = errorCount
  /\ semPc' = "visiting"
  /\ run' = run + 1
  /\ firstRecorded' = recorded
  /\ recorded' = 0
  /\ rpos' = 2
  /\ visited' = NoTok
  /\ verdict' = 0
  /\ UNCHANGED <<semMode, errorCount, result, nodes>>

\* visitFunction: a function-like node opens a new function context.
visitFunction ==
  /\ UNCHANGED irVars
  /\ UNCHANGED gcVars
  /\ semPc = "visiting"
  /\ \E tok \in NextToks :
       /\ tok.t = "function"
       /\ visits' = Append(visits, [Visit(tok) EXCEPT
                             !.ctx = SemFunctionContext(funcCtx_, SemTop + 1)])
       /\ funcCtx_' = SemTop + 1
       /\ Advance(tok, 0)

\* A definition that replaces a label that is active.
DefineLabelBug(ctx, tok, self) ==
  [ctx |-> [ctx EXCEPT !.labelMap =
              (tok.label :> Label(self, tok.t = "loop")) @@ @],
   inserted |-> TRUE]

\* visit(LabeledStatementNode) for tok.label, the definition of its label:
\* the updated label map, and whether the label was inserted.
DefineLabel(ctx, tok, self) ==
  IF tok.label \in DOMAIN ctx.labelMap
  THEN [ctx |-> ctx, inserted |-> FALSE]
  ELSE [ctx |-> [ctx EXCEPT !.labelMap =
                   (tok.label :> Label(self, tok.t = "loop")) @@ @],
        inserted |-> TRUE]

\* visit of a loop statement, under its label when it has one.
visitLoop ==
  /\ UNCHANGED irVars
  /\ UNCHANGED gcVars
  /\ semPc = "visiting"
  /\ \E tok \in NextToks :
       /\ tok.t = "loop"
       /\ LET self == SemTop + 1
              def == IF tok.label = ""
                     THEN [ctx |-> semCurFunction, inserted |-> TRUE]
                     ELSE DefineLabel(semCurFunction, tok, self)
              ctx == def.ctx
          IN  /\ visits' = Append(
                   SetSemCur(visits, [ctx EXCEPT !.activeLoop = self,
                                                 !.activeSwitchOrLoop = self]),
                   [Visit(tok) EXCEPT !.savedLoop = ctx.activeLoop,
                                      !.savedSwitchOrLoop = ctx.activeSwitchOrLoop,
                                      !.inserted = def.inserted /\ tok.label # ""])
              /\ Advance(tok, IF def.inserted THEN 0 ELSE 1)
       /\ UNCHANGED funcCtx_

visitSwitch ==
  /\ UNCHANGED irVars
  /\ UNCHANGED gcVars
  /\ semPc = "visiting"
  /\ \E tok \in NextToks :
       /\ tok.t = "switch"
       /\ LET ctx == semCurFunction
          IN  visits' = Append(
                SetSemCur(visits, [ctx EXCEPT !.activeSwitchOrLoop = SemTop + 1]),
                [Visit(tok) EXCEPT !.savedSwitchOrLoop = ctx.activeSwitchOrLoop])
       /\ Advance(tok, 0)
       /\ UNCHANGED funcCtx_

\* visit(LabeledStatementNode) on a labeled block.
visitLabeledStatement ==
  /\ UNCHANGED irVars
  /\ UNCHANGED gcVars
  /\ semPc = "visiting"
  /\ \E tok \in NextToks :
       /\ tok.t = "label"
       /\ LET def == DefineLabel(semCurFunction, tok, SemTop + 1)
          IN  /\ visits' = Append(SetSemCur(visits, def.ctx),
                                  [Visit(tok) EXCEPT !.inserted = def.inserted])
              /\ Advance(tok, IF def.inserted THEN 0 ELSE 1)
       /\ UNCHANGED funcCtx_

\* visit(BreakStatementNode): whether the break resolves.
BreakResolves(ctx, tok) ==
  IF tok.label # "" THEN tok.label \in DOMAIN ctx.labelMap
  ELSE ctx.activeSwitchOrLoop # 0

\* A labeled continue that accepts any active label.
ContinueResolvesBug(ctx, tok) ==
  IF tok.label # "" THEN tok.label \in DOMAIN ctx.labelMap
  ELSE ctx.activeLoop # 0

\* visit(ContinueStatementNode): whether the continue resolves.
ContinueResolves(ctx, tok) ==
  IF tok.label # ""
  THEN tok.label \in DOMAIN ctx.labelMap /\ ctx.labelMap[tok.label].targetIsLoop
  ELSE ctx.activeLoop # 0

visitBreak ==
  /\ UNCHANGED irVars
  /\ UNCHANGED gcVars
  /\ semPc = "visiting"
  /\ \E tok \in NextToks :
       /\ tok.t = "break"
       /\ Advance(tok, IF BreakResolves(semCurFunction, tok) THEN 0 ELSE 1)
  /\ UNCHANGED <<visits, funcCtx_>>

visitContinue ==
  /\ UNCHANGED irVars
  /\ UNCHANGED gcVars
  /\ semPc = "visiting"
  /\ \E tok \in NextToks :
       /\ tok.t = "continue"
       /\ Advance(tok, IF ContinueResolves(semCurFunction, tok) THEN 0 ELSE 1)
  /\ UNCHANGED <<visits, funcCtx_>>

\* The label map once a labeled statement that inserted its label is left.
EraseLabel(ctx, fr) ==
  IF fr.inserted
  THEN [ctx EXCEPT !.labelMap = [l \in DOMAIN @ \ {fr.label} |-> @[l]]]
  ELSE ctx

\* The return of a visit() that holds state: the function context is
\* destroyed, the saved loop and switch are restored, the label is erased.
leave ==
  /\ UNCHANGED irVars
  /\ UNCHANGED gcVars
  /\ semPc = "visiting"
  /\ SemTop > 1
  /\ \E tok \in NextToks :
       /\ tok.t = "close"
       /\ LET fr == visits[SemTop]
              rest == SubSeq(visits, 1, SemTop - 1)
              ctx == semCurFunction
          IN  CASE fr.kind = "function" ->
                     /\ funcCtx_' = FuncCtxAfterDtor(fr.ctx)
                     /\ visits' = rest
                [] fr.kind = "loop" ->
                     /\ funcCtx_' = funcCtx_
                     /\ visits' = SetSemCur(rest,
                          EraseLabel([ctx EXCEPT
                                        !.activeLoop = fr.savedLoop,
                                        !.activeSwitchOrLoop = fr.savedSwitchOrLoop],
                                     fr))
                [] fr.kind = "switch" ->
                     /\ funcCtx_' = funcCtx_
                     /\ visits' = SetSemCur(rest,
                          [ctx EXCEPT !.activeSwitchOrLoop = fr.savedSwitchOrLoop])
                [] OTHER ->
                     /\ funcCtx_' = funcCtx_
                     /\ visits' = SetSemCur(rest, EraseLabel(ctx, fr))
       /\ Advance(tok, 0)

\* The root visit returns and doIt / doFunction reports whether the
\* validation recorded an error.
doItReturn ==
  /\ UNCHANGED irVars
  /\ UNCHANGED gcVars
  /\ semPc = "visiting"
  /\ SemTop = 1
  /\ run = 2 => TraversalOver(ast, rpos, recorded)
  /\ funcCtx_' = FuncCtxAfterDtor(visits[1].ctx)
  /\ result' = doIt(errorCount, initialErrorCount_)
  /\ semPc' = "done"
  /\ visits' = <<>>
  /\ UNCHANGED <<semMode, run, errorCount, initialErrorCount_, ast, rpos,
                 nodes, visited, verdict, recorded, firstRecorded>>

-----------------------------------------------------------------------------
\* The heap cell header. The allocator registers a finalizable object in its
\* finalizer list when it allocates it; the cell's constructor runs after.

Builds == [NDEBUG : BOOLEAN, HERMESVM_GCCELL_ID : BOOLEAN]

NoBuild == [NDEBUG |-> FALSE, HERMESVM_GCCELL_ID |-> FALSE]

NoCell == [constructed |-> FALSE, finalize_ |-> FALSE, _debugAllocationId_ |-> 0]

NoConstruction == [cell |-> 0, finalize_ |-> FALSE, mostRecent |-> FALSE]

GcRunning == cells # <<>>

\* GC::isMostRecentFinalizableObj
isMostRecentFinalizableObj(list, cell) ==
  list # <<>> /\ list[Len(list)] = cell

\* A constructor without the assert.
CheckPassesBug(b, list, cell, finalize) == TRUE

\* The assert of GCCell::GCCell: whether the program goes on. assert expands
\* to nothing when NDEBUG is defined.
CheckPasses(b, list, cell, finalize) ==
  b.NDEBUG \/ ~finalize \/ isMostRecentFinalizableObj(list, cell)

GcInit ==
  /\ build \in Builds
  /\ finalizables = <<>>
  /\ cells = [c \in 1..MaxCells |-> NoCell]
  /\ objectID = 0
  /\ constructing = NoConstruction
  /\ fatal = FALSE

\* The allocator adds a cell to its finalizer list.
registerFinalizable ==
  /\ UNCHANGED irVars
  /\ UNCHANGED semVars
  /\ GcRunning
  /\ ~fatal
  /\ \E c \in 1..MaxCells :
       /\ ~cells[c].constructed
       /\ c \notin {finalizables[i] : i \in 1..Len(finalizables)}
       /\ finalizables' = Append(finalizables, c)
  /\ UNCHANGED <<build, cells, objectID, constructing, fatal>>

\* GCCell::GCCell(gc, vtp)
GCCell ==
  /\ UNCHANGED irVars
  /\ UNCHANGED semVars
  /\ GcRunning
  /\ ~fatal
  /\ \E c \in 1..MaxCells : \E finalize \in BOOLEAN :
       /\ ~cells[c].constructed
       /\ LET id == IF build.HERMESVM_GCCELL_ID THEN objectID + 1 ELSE 0
          IN  /\ objectID' = IF build.HERMESVM_GCCELL_ID THEN objectID + 1 ELSE objectID
              /\ cells' = [cells EXCEPT ![c] =
                             [constructed |-> TRUE, finalize_ |-> finalize,
                              _debugAllocationId_ |-> id]]
       /\ constructing' =
            [cell |-> c, finalize_ |-> finalize,
             mostRecent |-> isMostRecentFinalizableObj(finalizables, c)]
       /\ fatal' = ~CheckPasses(build, finalizables, c, finalize)
  /\ UNCHANGED <<build, finalizables>>

-----------------------------------------------------------------------------
\* The parts are observed one at a time: the generator at work, a validation,
\* or the heap, with the other two at rest.

IrOff ==
  /\ funcs = <<>>
  /\ nameTable_ = <<>>
  /\ functionContext_ = 0
  /\ Builder = NoInsertion
  /\ stack = <<>>
  /\ fuel = 0

SemOff ==
  /\ semMode = "off"
  /\ semPc = "idle"
  /\ run = 0
  /\ visits = <<>>
  /\ funcCtx_ = 0
  /\ errorCount = 0
  /\ initialErrorCount_ = 0
  /\ result = TRUE
  /\ ast = <<>>
  /\ rpos = 1
  /\ nodes = 0
  /\ visited = NoTok
  /\ verdict = 0
  /\ recorded = 0
  /\ firstRecorded = 0

GcOff ==
  /\ build = NoBuild
  /\ finalizables = <<>>
  /\ cells = <<>>
  /\ objectID = 0
  /\ constructing = NoConstruction
  /\ fatal = FALSE

vars == <<irVars, semVars, gcVars>>

Init ==
  \/ IrInit /\ SemOff /\ GcOff
  \/ IrOff /\ SemInit /\ GcOff
  \/ IrOff /\ SemOff /\ GcInit

Next ==
  \/ emitFunctionPrologue
  \/ genFunctionDeclaration
  \/ genFunctionExpression
  \/ genES5FunctionLazy
  \/ genES5FunctionEnter
  \/ genArrowFunctionExpression
  \/ emitFunctionPrologueEnd
  \/ initCaptureStateInES5Function
  \/ propagateCaptured
  \/ genStatement
  \/ genStatementBranch
  \/ emitFunctionEpilogue
  \/ genES5FunctionReturn
  \/ genFunctionDeclarationEnd
  \/ genFunctionExpressionEnd
  \/ genArrowFunctionExpressionEnd
  \/ validateAST
  \/ visitFunction
  \/ visitLoop
  \/ visitSwitch
  \/ visitLabeledStatement
  \/ visitBreak
  \/ visitContinue
  \/ leave
  \/ doItReturn
  \/ registerFinalizable
  \/ GCCell

Spec == Init /\ [][Next]_vars

-----------------------------------------------------------------------------
\* Helpers of the properties.

Range(seq) == {seq[i] : i \in 1..Len(seq)}

InstsOf(f) == UNION {Range(funcs[f].blocks[i].insts) : i \in 1..Len(funcs[f].blocks)}

\* The names genAnonymousLabelName can give a variable with this hint.
AnonNames(hint) ==
  {"?anon_" \o ToString(k) \o "_" \o hint : k \in 0..(MaxNodes + 3)}

VarsNamed(f, names) == {k \in 1..Len(funcs[f].vars) : funcs[f].vars[k] \in names}

CaptureInsts(f) ==
  {i \in InstsOf(f) : \/ i.op \in {"GetNewTarget", "CreateArguments"}
                      \/ i.op = "StoreFrame" /\ i.a = Parameter(f, 1, "this")}

\* The frames that hold a live lowering context, and the one below frame i.
LiveIdx == {i \in 1..Len(stack) : stack[i].ctx.self # 0}

LiveBelow(i) == {j \in LiveIdx : j < i}

\* The functions of the live contexts, innermost first.
RECURSIVE LiveFunctions(_)
LiveFunctions(i) ==
  IF i = 0 THEN <<>>
  ELSE (IF i \in LiveIdx THEN <<stack[i].ctx.function>> ELSE <<>>)
         \o LiveFunctions(i - 1)

RECURSIVE Uniq(_, _)
Uniq(seq, seen) ==
  IF seq = <<>> THEN <<>>
  ELSE IF Head(seq) \in seen THEN Uniq(Tail(seq), seen)
  ELSE <<Head(seq)>> \o Uniq(Tail(seq), seen \cup {Head(seq)})

FirstPos(seq, x) == CHOOSE i \in 1..Len(seq) : seq[i] = x /\ \A j \in 1..(i - 1) : seq[j] # x

LastPos(seq, x) == Max({i \in 1..Len(seq) : seq[i] = x})

-----------------------------------------------------------------------------
\* C1: genES5Function on a lazy function body returns a function with the
\* implicit "this" parameter followed by one parameter per formal, in source
\* order and under the formal's name, with its lazy descriptor recorded (buffer
\* id, node kind, the function node's source range, the saved scope) and with
\* no basic block; the call pushes no lowering context and leaves the current
\* context, the name table and the builder's insertion point as they were.
C1_LazyStub ==
  [][(IrRunning /\ stack[Top].pc = "call" /\ stack[Top].node.lazy) =>
       LET node == stack[Top].node
           f == Len(funcs) + 1
       IN  /\ Len(funcs') = f
           /\ \A g \in 1..Len(funcs) : funcs'[g] = funcs[g]
           /\ Len(stack') = Len(stack)
           /\ stack'[Top].newFunc = f
           /\ stack'[Top].ctx = NoContext
           /\ funcs'[f].kind = "ES5Function"
           /\ funcs'[f].params = <<"this">> \o node.formals
           /\ funcs'[f].lazySource =
                [set |-> TRUE, bufferId |-> node.bufferId, nodeKind |-> node.kind,
                 functionRange |-> FunctionRange(f),
                 scope |-> LiveFunctions(Len(stack))]
           /\ funcs'[f].blocks = <<>>
           /\ functionContext_' = functionContext_
           /\ nameTable_' = nameTable_
           /\ Builder' = Builder]_vars

\* A lazy stub with two formals has been returned to its caller.
C1_Witness ==
  /\ IrRunning
  /\ stack[Top].pc = "ret"
  /\ stack[Top].node.lazy
  /\ funcs[stack[Top].newFunc].params = <<"this", "b", "a">>
  /\ funcs[stack[Top].newFunc].lazySource.set

\* C2: in an ordinary function lowered by genES5Function, once capture state
\* is initialized: without containsArrowFunctions there is no capture storage
\* and no capture store; with it, storage for this and new.target exists and
\* is stored into; arguments storage exists (and is stored into) iff
\* containsArrowFunctionsUsingArguments is set as well.
C2_CaptureStorage ==
  \A i \in 1..Len(stack) :
    (stack[i].call \in {"decl", "expr"} /\ stack[i].pc \in {"body", "exit"}) =>
      LET ctx == stack[i].ctx
          f == ctx.function
          cA == stack[i].node.containsArrowFunctions
          cU == stack[i].node.containsArrowFunctionsUsingArguments
          thisVars == VarsNamed(f, AnonNames("this"))
          ntVars == VarsNamed(f, AnonNames("new.target"))
          argVars == VarsNamed(f, AnonNames("arguments"))
      IN  /\ ~cA =>
                /\ thisVars = {} /\ ntVars = {} /\ argVars = {}
                /\ ctx.capturedThis = Null
                /\ ctx.capturedNewTarget = LiteralUndefined
                /\ ctx.capturedArguments = Null
                /\ CaptureInsts(f) = {}
          /\ cA =>
                /\ Cardinality(thisVars) = 1 /\ Cardinality(ntVars) = 1
                /\ \E k \in thisVars :
                     /\ ctx.capturedThis = Variable(f, k, funcs[f].vars[k])
                     /\ Inst("StoreFrame", Parameter(f, 1, "this"), ctx.capturedThis)
                          \in InstsOf(f)
                /\ \E k \in ntVars :
                     /\ ctx.capturedNewTarget = Variable(f, k, funcs[f].vars[k])
                     /\ Inst("StoreFrame", Val("inst", f, 0, "GetNewTarget"),
                             ctx.capturedNewTarget) \in InstsOf(f)
          /\ (argVars # {}) <=> (cA /\ cU)
          /\ (cA /\ cU) =>
                \E k \in argVars :
                  /\ ctx.capturedArguments = Variable(f, k, funcs[f].vars[k])
                  /\ Inst("StoreFrame", Val("inst", f, 0, "CreateArguments"),
                          ctx.capturedArguments) \in InstsOf(f)
          /\ ~(cA /\ cU) =>
                /\ ctx.capturedArguments = Null
                /\ Inst("CreateArguments", Null, Null) \notin InstsOf(f)

\* A function whose arrows do not use arguments is past its capture
\* initialization: this and new.target are captured, arguments is not.
C2_Witness ==
  /\ IrRunning
  /\ \E i \in 1..Len(stack) :
       /\ stack[i].pc = "body" /\ stack[i].call \in {"decl", "expr"}
       /\ stack[i].node.containsArrowFunctions
       /\ ~stack[i].node.containsArrowFunctionsUsingArguments
       /\ stack[i].ctx.capturedThis.kind = "var"
       /\ stack[i].ctx.capturedNewTarget.kind = "var"
       /\ stack[i].ctx.capturedArguments = Null

\* C3: no function holds more than one capture variable of each kind or more
\* than one capture store; an arrow function holds none; and every arrow
\* being lowered, at any depth, has the capturedThis, capturedNewTarget and
\* capturedArguments of the context of the nearest enclosing function that is
\* not an arrow.
C3_CaptureShared ==
  /\ \A f \in 1..Len(funcs) :
       /\ Cardinality(VarsNamed(f, AnonNames("this"))) <= 1
       /\ Cardinality(VarsNamed(f, AnonNames("new.target"))) <= 1
       /\ Cardinality(VarsNamed(f, AnonNames("arguments"))) <= 1
       /\ funcs[f].kind = "ES6Arrow" =>
            /\ VarsNamed(f, AnonNames("this") \cup AnonNames("new.target")
                              \cup AnonNames("arguments")) = {}
            /\ CaptureInsts(f) = {}
  /\ \A i \in 1..Len(stack) :
       (stack[i].call = "arrow" /\ stack[i].pc \in {"body", "exit"}) =>
         LET o == Max({j \in 1..(i - 1) : stack[j].call # "arrow"})
         IN  /\ stack[i].ctx.capturedThis = stack[o].ctx.capturedThis
             /\ stack[i].ctx.capturedNewTarget = stack[o].ctx.capturedNewTarget
             /\ stack[i].ctx.capturedArguments = stack[o].ctx.capturedArguments

\* An arrow inside an arrow inside an ordinary function holds that
\* function's capture variables.
C3_Witness ==
  /\ IrRunning
  /\ Len(stack) >= 3
  /\ stack[Top].call = "arrow" /\ stack[Top].pc = "body"
  /\ stack[Top - 1].call = "arrow"
  /\ stack[Top - 2].call = "expr"
  /\ stack[Top].ctx.capturedThis.kind = "var"
  /\ stack[Top].ctx.capturedThis.f = stack[Top - 2].ctx.function

\* C5: emitFunctionEpilogue on a function with one post-entry block that only
\* the entry block's branch targets leaves one block: the entry block's
\* instructions without the branch, followed by the successor's instructions
\* in their order (ending in the return just emitted). When another branch
\* targets the post-entry block too, no block is removed and the entry block,
\* its branch and the context's entryTerminator are unchanged.
C5_EpilogueMerge ==
  [][(IrRunning /\ stack[Top].pc = "body" /\ stack'[Top].pc = "exit") =>
       LET f == functionContext_
           b == funcs[f].blocks
           entry == b[1].insts
           ret == Inst("Return", LiteralUndefined, Null)
           other == \E i \in 1..Len(b) : \E p \in 1..Len(b[i].insts) :
                      /\ <<i, p>> # <<1, Len(entry)>>
                      /\ b[i].insts[p] = Inst("Branch", BlockRef(f, b[2].id), Null)
       IN  /\ (Len(b) = 2 /\ ~other) =>
                /\ Len(funcs'[f].blocks) = 1
                /\ funcs'[f].blocks[1].id = b[1].id
                /\ funcs'[f].blocks[1].insts =
                     SubSeq(entry, 1, Len(entry) - 1) \o b[2].insts \o <<ret>>
                /\ stack'[Top].ctx.entryTerminator = Null
           /\ other =>
                /\ Len(funcs'[f].blocks) = Len(b)
                /\ funcs'[f].blocks[1] = b[1]
                /\ funcs'[f].blocks[2] = b[2]
                /\ entry[Len(entry)] = Inst("Branch", BlockRef(f, b[2].id), Null)
                /\ stack'[Top].ctx.entryTerminator = stack[Top].ctx.entryTerminator
                /\ stack'[Top].ctx.entryTerminator # Null]_vars

\* The epilogue has merged a body of at least two instructions into the entry
\* block of one function, and has kept the blocks of another function whose
\* post-entry block a second branch targets.
C5_Witness ==
  /\ IrRunning
  /\ stack[Top].pc = "exit"
  /\ stack[Top].ctx.entryTerminator = Null
  /\ Len(funcs[functionContext_].blocks) = 1
  /\ Len(funcs[functionContext_].blocks[1].insts) >= 2
  /\ \E g \in 1..Len(funcs) :
       /\ g # functionContext_
       /\ funcs[g].kind = "ES5Function"
       /\ Len(funcs[g].blocks) = 3
       /\ Cardinality({i \in InstsOf(g) : i.op = "Branch"}) = 1
       /\ \E i \in InstsOf(g) : i.op = "Return"

\* C10: when emitFunctionPrologue has finished on a function: the function's
\* variables are the hoisted variables and hoisted function declarations
\* (each name once, in first-occurrence order) followed by one fresh variable
\* per formal; its parameters are "this" and the formals; and its entry block
\* holds, in this order, the stores of undefined into the hoisted variables,
\* the store of each formal's parameter into its fresh variable, then for
\* each hoisted function declaration the creation of its closure and the store
\* of that closure into the variable the name resolves to (the formal's
\* variable when a formal has the same name), and last the branch to the
\* second block, which is empty and is the insertion point. A formal's name
\* resolves to the formal's variable, not to the slot reserved for a function
\* declaration of the same name.
C10_PrologueOrder ==
  (IrRunning /\ stack[Top].pc \in {"capture", "propagate"}) =>
    LET node == stack[Top].node
        f == functionContext_
        formals == node.formals
        U == Uniq(node.decls \o node.closures, {})
        D == Uniq(node.decls, {})
        nU == Len(U)
        nF == Len(formals)
        nD == Len(D)
        Storage(name) ==
          IF name \in Range(formals)
          THEN Variable(f, nU + LastPos(formals, name), name)
          ELSE Variable(f, FirstPos(U, name), name)
        entry == funcs[f].blocks[1].insts
    IN  /\ funcs[f].vars = U \o formals
        /\ funcs[f].params = <<"this">> \o formals
        /\ Len(funcs[f].blocks) = 2
        /\ Len(entry) = nD + nF + 2 * Len(node.closures) + 1
        /\ \A k \in 1..nD :
             entry[k] = Inst("StoreFrame", LiteralUndefined, Variable(f, k, D[k]))
        /\ \A k \in 1..nF :
             entry[nD + k] = Inst("StoreFrame", Parameter(f, k + 1, formals[k]),
                                  Variable(f, nU + k, formals[k]))
        /\ \A k \in 1..Len(node.closures) :
             LET create == entry[nD + nF + 2 * k - 1]
                 store == entry[nD + nF + 2 * k]
             IN  /\ create.op = "CreateFunction"
                 /\ create.a.kind = "function"
                 /\ funcs[create.a.f].name = node.closures[k]
                 /\ funcs[create.a.f].kind = "ES5Function"
                 /\ store = Inst("StoreFrame", Val("closure", create.a.f, 0, ""),
                                 Storage(node.closures[k]))
        /\ entry[Len(entry)] = Inst("Branch", BlockRef(f, funcs[f].blocks[2].id), Null)
        /\ funcs[f].blocks[2].insts = <<>>
        /\ Builder = [f |-> f, b |-> funcs[f].blocks[2].id]
        /\ stack[Top].ctx.entryTerminator = Val("inst", f, funcs[f].blocks[1].id, "Branch")
        /\ \A k \in 1..nF : lookup(nameTable_, formals[k]) = Storage(formals[k])

\* The prologue has finished on a function with a formal and a hoisted
\* function declaration of the same name.
C10_Witness ==
  /\ IrRunning
  /\ stack[Top].pc = "capture"
  /\ stack[Top].node.formals = <<"a">>
  /\ stack[Top].node.closures = <<"a">>
  /\ Len(funcs[functionContext_].blocks[1].insts) = 4

-----------------------------------------------------------------------------
\* Helpers of the validator's properties.

MinOf(S) == CHOOSE x \in S : \A y \in S : x <= y

\* The visit() frames that hold a function context.
FuncFrames == {i \in 1..Len(visits) : visits[i].kind \in {"program", "function"}}

Innermost == Max(FuncFrames)

FuncBelow(i) == {j \in FuncFrames : j < i}

\* The statements open in function frame f itself, not in a function nested
\* in it.
Owned(f) ==
  {j \in (f + 1)..Len(visits) : \A k \in (f + 1)..j : k \notin FuncFrames}

\* The open statements of function frame f that carry label l, below frame top.
Labeled(f, l, top) == {j \in Owned(f) : j < top /\ visits[j].label = l}

\* C4: at any time exactly one context is current, the innermost live one, and
\* every live context has saved the context that was current when it was
\* constructed, the next live one outwards (none for the outermost); so the
\* destruction of a context, whatever was lowered or validated inside it,
\* leaves the current-context pointer as it was before the function was
\* entered, and a finished validation leaves it empty.
C4_ContextStacksLIFO ==
  /\ IrRunning =>
       /\ functionContext_ =
            (IF LiveIdx = {} THEN 0 ELSE stack[Max(LiveIdx)].ctx.self)
       /\ \A i \in LiveIdx :
            /\ stack[i].ctx.oldContext_ =
                 (IF LiveBelow(i) = {} THEN 0
                  ELSE stack[Max(LiveBelow(i))].ctx.self)
            /\ \A j \in LiveBelow(i) : stack[j].ctx.self # stack[i].ctx.self
  /\ semPc = "visiting" =>
       /\ funcCtx_ = Innermost
       /\ \A i \in FuncFrames :
            /\ visits[i].ctx.self = i
            /\ visits[i].ctx.oldContextValue_ =
                 (IF FuncBelow(i) = {} THEN 0 ELSE Max(FuncBelow(i)))
  /\ semPc = "done" => funcCtx_ = 0

\* An eager function with a function nested in it has been lowered inside
\* another function, and that function's context is current again.
C4_Witness ==
  /\ IrRunning
  /\ stack[Top].pc = "ret"
  /\ ~stack[Top].node.lazy
  /\ Len(funcs) > stack[Top].newFunc
  /\ functionContext_ > 1
  /\ functionContext_ < stack[Top].newFunc

C7_LabelsPerFunction ==
  semPc = "visiting" =>
    /\ \A f \in FuncFrames :
         DOMAIN visits[f].ctx.labelMap =
           {visits[j].label : j \in Owned(f)} \ {""}
    /\ (visited.t \in {"label", "loop"} /\ visited.label # "") =>
         (verdict = 1 <=> Labeled(Innermost, visited.label, SemTop) # {})
    /\ verdict \in {0, 1}
    /\ (visited.t \in {"break", "continue"} /\ visited.label # "" /\ verdict = 0) =>
         Labeled(Innermost, visited.label, SemTop + 1) # {}

\* A label has been accepted in a nested function while the enclosing
\* function has the same label active.
C7_Witness ==
  /\ semPc = "visiting"
  /\ Len(visits) = 4
  /\ visits[2].kind = "label" /\ visits[2].label = "a"
  /\ visits[3].kind = "function"
  /\ visited = Tok("label", "a")
  /\ visits[4].inserted
  /\ verdict = 0

\* C8: an unlabeled continue is accepted iff a loop is open in the current
\* function, an unlabeled break iff a loop or a switch is; a labeled break iff
\* a statement open in the current function carries the label; a labeled
\* continue iff the statement that holds the label in the current function is
\* a loop. Statements of enclosing functions never count.
C8_BreakContinue ==
  (semPc = "visiting" /\ visited.t \in {"break", "continue"}) =>
    LET own == Owned(Innermost)
        l == visited.label
        holders == Labeled(Innermost, l, SemTop + 1)
        accepted ==
          CASE visited.t = "continue" /\ l = "" ->
                 \E j \in own : visits[j].kind = "loop"
            [] visited.t = "break" /\ l = "" ->
                 \E j \in own : visits[j].kind \in {"loop", "switch"}
            [] visited.t = "break" /\ l # "" -> holders # {}
            [] OTHER -> holders # {} /\ visits[MinOf(holders)].kind = "loop"
    IN  /\ verdict \in {0, 1}
        /\ verdict = 0 <=> accepted

\* A break in a function nested in a loop has been rejected.
C8_Witness ==
  /\ semPc = "visiting"
  /\ Len(visits) = 3
  /\ visits[2].kind = "loop"
  /\ visits[3].kind = "function"
  /\ visited = Tok("break", "")
  /\ verdict = 1

\* C9: where assert is compiled in (NDEBUG is not defined), the construction
\* of a cell ends the program iff its vtable has a finalizer and the cell is not
\* the last one of the allocator's finalizer list; where NDEBUG is defined no
\* construction ends the program. A cell without a finalizer is constructed
\* in every build, whatever the list holds.
C9_FinalizerOrder ==
  (GcRunning /\ constructing.cell # 0) =>
    /\ fatal <=> (/\ ~build.NDEBUG
                  /\ constructing.finalize_
                  /\ ~constructing.mostRecent)
    /\ cells[constructing.cell].constructed

\* A cell with a finalizer was constructed when another cell had been
\* registered after it, and the program was ended.
C9_Witness ==
  /\ GcRunning
  /\ fatal
  /\ constructing.finalize_
  /\ Len(finalizables) = 2
  /\ finalizables[1] = constructing.cell

\* C9 as stated: in every build, the construction of a cell with a finalizer
\* that is not the most recently registered one ends the program.
C9_Original ==
  (GcRunning /\ constructing.cell # 0) =>
    (fatal <=> (constructing.finalize_ /\ ~constructing.mostRecent))

-----------------------------------------------------------------------------
\* Helpers of the properties of genFunctionExpression.

\* The instructions of the block the builder inserts into.
InsertionInsts(fs, ins) == fs[ins.f].blocks[BlockIdx(fs, ins.f, ins.b)].insts

\* The names a function-like node declares itself.
DeclaredNames(node) ==
  Range(node.formals) \cup Range(node.decls) \cup Range(node.closures)

\* genFunctionExpression has just been entered: a fresh scope is open; for a
\* named expression one alias variable has been created in the enclosing
\* function and the fresh scope binds the name to it; for an anonymous one
\* nothing has been created.
ExprCallEffect ==
  (IrRunning /\ Len(stack') = Len(stack) + 1 /\ stack'[Len(stack')].call = "expr") =>
    LET fr == stack'[Len(stack')]
        name == fr.node.name
        f == functionContext_
        n == Len(funcs[f].vars)
        fresh == nameTable_'[Len(nameTable_')]
    IN  /\ Len(nameTable_') = Len(nameTable_) + 1
        /\ fr.newScope = Len(nameTable_')
        /\ IF name # ""
           THEN /\ Len(funcs'[f].vars) = n + 1
                /\ funcs'[f].vars[n + 1] \in AnonNames("closure")
                /\ fr.tempClosureVar = Variable(f, n + 1, funcs'[f].vars[n + 1])
                /\ DOMAIN fresh = {name}
                /\ lookup(nameTable_', name) = fr.tempClosureVar
           ELSE /\ funcs' = funcs
                /\ fr.tempClosureVar = Null
                /\ fresh = EmptyScope

\* genFunctionExpression has just returned: the fresh scope is closed and the
\* name resolves as it did before the call; the closure has been created, and
\* stored into the alias variable iff there is one.
ExprReturnEffect ==
  (IrRunning /\ stack[Top].call = "expr" /\ stack[Top].pc = "ret"
     /\ Len(stack') = Len(stack) - 1) =>
    LET fr == stack[Top]
        create == Inst("CreateFunction", FunctionRef(fr.newFunc), Null)
        store == Inst("StoreFrame", Val("closure", fr.newFunc, 0, ""),
                      fr.tempClosureVar)
    IN  /\ Len(nameTable_') = fr.newScope - 1
        /\ lookup(nameTable_', fr.node.name) = fr.outerLookup
        /\ InsertionInsts(funcs', Builder) =
             InsertionInsts(funcs, Builder)
               \o (IF fr.node.name = "" THEN <<create>> ELSE <<create, store>>)

\* The body of a named function expression is being lowered (shadowed tells
\* whether functions that declare the name themselves are looked at too): the
\* name resolves to the alias variable.
NameInBody(shadowed) ==
  (IrRunning /\ stack'[Len(stack')].call = "expr"
     /\ stack'[Len(stack')].pc = "body"
     /\ stack'[Len(stack')].node.name # ""
     /\ (shadowed \/ stack'[Len(stack')].node.name
                       \notin DeclaredNames(stack'[Len(stack')].node))) =>
    lookup(nameTable_', stack'[Len(stack')].node.name)
      = stack'[Len(stack')].tempClosureVar

\* C11: lowering a named function expression opens a fresh name-table scope
\* that binds the function's name to a synthesized alias variable; inside the
\* body the name resolves to that variable unless the function declares a
\* formal, a hoisted variable or a hoisted function of the same name; when
\* genFunctionExpression returns the scope is gone and the name resolves as it
\* did before the expression was lowered. An anonymous function expression
\* creates no alias variable and emits no store.
C11_FunctionExpressionScope ==
  [][ExprCallEffect /\ NameInBody(FALSE) /\ ExprReturnEffect]_vars

\* The body of a function expression named a is being lowered where the name
\* is bound outside as well: inside it resolves to the alias variable.
C11_Witness ==
  /\ IrRunning
  /\ stack[Top].call = "expr"
  /\ stack[Top].pc = "body"
  /\ stack[Top].node.name = "a"
  /\ stack[Top].outerLookup # Null
  /\ lookup(nameTable_, "a") = stack[Top].tempClosureVar
  /\ stack[Top].tempClosureVar # stack[Top].outerLookup

\* C11 as stated: inside the body of every named function expression the name
\* resolves to the alias variable.
C11_Original ==
  [][ExprCallEffect /\ NameInBody(TRUE) /\ ExprReturnEffect]_vars

-----------------------------------------------------------------------------
\* Helpers of the properties of the hoisting loop.

\* The call frames whose prologue has hoisted and bound its names.
Hoisted == {i \in 1..Len(stack) : stack[i].pc \in {"closures", "capture", "propagate"}}

Occurrences(seq, x) == Cardinality({k \in 1..Len(seq) : seq[k] = x})

\* The stores of undefined into a variable called name in f's entry block.
UndefStores(f, name) ==
  LET entry == funcs[f].blocks[1].insts
  IN  {k \in 1..Len(entry) : /\ entry[k].op = "StoreFrame"
                             /\ entry[k].a = LiteralUndefined
                             /\ entry[k].b.n = name}

-----------------------------------------------------------------------------
\* Helpers of the properties of the epilogue's precondition.

\* The live lowering contexts.
LiveContexts == {stack[i].ctx.self : i \in LiveIdx}

\* The context's entryTerminator is set, is the branch that ends a block of
\* the context's function, and its one successor is a block of that function.
TerminatorSet(fs, ctx) ==
  LET f == ctx.function
      term == ctx.entryTerminator
  IN  /\ term # Null
      /\ term.kind = "inst"
      /\ term.f = f
      /\ \E e \in 1..Len(fs[f].blocks) :
           LET insts == fs[f].blocks[e].insts
           IN  /\ fs[f].blocks[e].id = term.i
               /\ insts # <<>>
               /\ insts[Len(insts)].op = "Branch"
               /\ insts[Len(insts)].b = Null
               /\ insts[Len(insts)].a.kind = BlockRef(f, 0).kind
               /\ insts[Len(insts)].a.f = f
               /\ \E n \in 1..Len(fs[f].blocks) :
                    fs[f].blocks[n].id = insts[Len(insts)].a.i

\* emitFunctionEpilogue has just run in the innermost call.
EpilogueRan ==
  /\ IrRunning
  /\ Len(stack') = Len(stack)
  /\ stack[Top].pc # "exit"
  /\ stack'[Top].pc = "exit"

\* C13: emitFunctionEpilogue runs only in the body of the current context,
\* after that context's prologue has set entryTerminator to the entry block's
\* branch, whose one successor is a block of the function; between the end of
\* the prologue and the epilogue the terminator stays so; after the epilogue
\* the next step of the context is its destruction, so the epilogue does not
\* run again on it; and a context is destroyed only after its epilogue has run.
C13_EpiloguePrecondition ==
  [][/\ EpilogueRan =>
          /\ stack[Top].pc = "body"
          /\ stack[Top].ctx.self = functionContext_
          /\ stack'[Top].ctx.self = functionContext_
          /\ TerminatorSet(funcs, stack[Top].ctx)
     /\ (IrRunning /\ stack' # <<>>
           /\ stack'[Len(stack')].pc \in {"capture", "propagate", "body"}) =>
          TerminatorSet(funcs', stack'[Len(stack')].ctx)
     /\ (IrRunning /\ stack[Top].pc = "exit") =>
          stack[Top].ctx.self \notin LiveContexts'
     /\ (IrRunning /\ LiveContexts \ LiveContexts' # {}) =>
          /\ stack[Top].pc = "exit"
          /\ LiveContexts \ LiveContexts' = {stack[Top].ctx.self}
    ]_vars

\* The epilogue has run on an arrow function's context and has erased the
\* entry terminator.
C13_Witness ==
  /\ IrRunning
  /\ stack[Top].call = "arrow"
  /\ stack[Top].pc = "exit"
  /\ stack[Top].ctx.entryTerminator = Null
  /\ Len(funcs[stack[Top].ctx.function].blocks) = 1

====
